---- MODULE Spec2Model ----
(***************************************************************************)
(* The ReceiptProcessor component (stream variant): React state, the       *)
(* handleFolderSelect and handleProcess async handlers, and the            *)
(* EventSource progress channels that handleProcess opens.                 *)
(***************************************************************************)
EXTENDS Integers, Sequences, FiniteSets, TLC

\* ---- bounds of the model ----
MaxRuns == 3
MaxSelects == 2
MaxCount == 1
MaxUploadSelects == 2
MaxUploadRuns == 1

\* ---- values ----
\* null (no summary, no response body)
Null == [null |-> TRUE]
\* an absent field of a parsed JSON object (outside the range of the integer fields)
Undefined == -1

\* progress values a /progress message can carry (in range, regressing, out of range)
ProgressValues == {-10, 50, 100, 150}

\* a field of the /process response body: an integer, or absent
FieldValues == (0..MaxCount) \cup {Undefined}
Payloads == [processed : FieldValues, total : FieldValues]

VARIABLES
  processing,      \* useState(false)
  progress,        \* useState(0)
  summary,         \* useState(null)
  folderSelected,  \* useState(false)
  notice,          \* the last toast shown
  pc,              \* position of the handleProcess invocation in flight
  eventSource,     \* the channel the invocation in flight (or the last one) created, 0 if none
  channels,        \* every EventSource created so far
  selFetch,        \* handleFolderSelect invocations awaiting fetch
  selJson,         \* handleFolderSelect invocations awaiting response.json()
  selects,         \* handleFolderSelect invocations so far
  invocations,     \* handleProcess invocations so far
  issued,          \* /process requests issued so far
  settled,         \* handleProcess invocations that reached finally
  outcome,         \* how the last handleProcess invocation ended
  response,        \* body of the /process response of the last successful run
  maxSeen,         \* largest clamped progress value received since the run started
  selectOk,        \* some /select-folder call returned ok with success true
  mounted,         \* the component is mounted
  intervals,       \* timer variant: every setInterval timer created so far, TRUE while active
  upload,          \* upload variant: handleUpload invocations by position, and whether one failed
  listing,         \* upload variant: fetchReceipts invocations by caller and position
  receipts,        \* upload variant: useState([]), the length of the list
  lastFrom         \* the channel whose message was handled last since the run started, 0 if none

vars == <<processing, progress, summary, folderSelected, notice, pc, eventSource,
          channels, selFetch, selJson, selects, invocations, issued, settled,
          outcome, response, maxSeen, selectOk, mounted, intervals, upload, listing, receipts, lastFrom>>

uiVars == <<processing, progress, summary, folderSelected, notice>>
runVars == <<pc, eventSource, invocations, issued, settled, outcome, response>>
selVars == <<selFetch, selJson, selects, selectOk>>
\* state that only the teardown and the other variants of the component touch
extVars == <<mounted, intervals, upload, listing, receipts>>

\* ---- helpers ----
\* a useState setter: a no-op once the component is unmounted
SetState(old, new) == IF mounted THEN new ELSE old

\* data.x || 0
OrZero(x) == IF x = Undefined \/ x = 0 THEN 0 ELSE x

\* the two fields of the summary taken from the wrong fields of the body
SummaryOfSwapped(data) == [processed |-> OrZero(data.total), total |-> OrZero(data.processed)]

\* { processed: data.processed || 0, total: data.total || 0 }
SummaryOf(data) == [processed |-> OrZero(data.processed), total |-> OrZero(data.total)]

\* new EventSource(...)
NewChannel == [readyState |-> "OPEN", closes |-> 0, got100 |-> FALSE]

\* eventSource.close()
Close(ch) == [ch EXCEPT !.readyState = "CLOSED", !.closes = @ + 1]

\* reference values of the progress property: a value clamped to [0,100], a maximum
Clamp(v) == IF v < 0 THEN 0 ELSE IF v > 100 THEN 100 ELSE v
Max(a, b) == IF a >= b THEN a ELSE b

OpenChannels == {c \in 1..Len(channels) : channels[c].readyState = "OPEN"}

\* the button left enabled while a run is in flight
ProcessDisabledIgnoresProcessing == ~folderSelected

\* the button left enabled before a folder was selected
ProcessDisabledIgnoresGate == processing

\* disabled={processing || !folderSelected}
ProcessDisabled == processing \/ ~folderSelected

\* disabled={processing}
SelectDisabled == processing

\* no handleUpload in flight, none failed
NoUpload == [fetch |-> 0, json |-> 0, failed |-> FALSE]

\* no fetchReceipts in flight; the callers are the mount effect and the stream
\* handler ("effect", not awaited) and handleUpload ("upload", awaited)
ListCallers == {"effect", "upload"}
NoListing == [k \in ListCallers |-> [fetch |-> 0, json |-> 0]]

Init ==
  /\ upload = NoUpload
  /\ listing = NoListing
  /\ receipts = 0
  /\ processing = FALSE
  /\ progress = 0
  /\ summary = Null
  /\ folderSelected = FALSE
  /\ notice = "none"
  /\ pc = "idle"
  /\ eventSource = 0
  /\ channels = <<>>
  /\ selFetch = 0
  /\ selJson = 0
  /\ selects = 0
  /\ invocations = 0
  /\ issued = 0
  /\ settled = 0
  /\ outcome = "none"
  /\ response = Null
  /\ maxSeen = 0
  /\ selectOk = FALSE
  /\ mounted = TRUE
  /\ intervals = <<>>
  /\ lastFrom = 0

\* ---- handleFolderSelect ----
\* click on "Select Receipt Folder": the fetch of /select-folder is issued
HandleFolderSelect ==
  /\ mounted
  /\ ~SelectDisabled
  /\ selects < MaxSelects
  /\ selects' = selects + 1
  /\ selFetch' = selFetch + 1
  /\ UNCHANGED <<uiVars, runVars, channels, selJson, selectOk, maxSeen, lastFrom, extVars>>

\* the fetch resolved with response.ok
SelectFetchOk ==
  /\ selFetch > 0
  /\ selFetch' = selFetch - 1
  /\ selJson' = selJson + 1
  /\ UNCHANGED <<uiVars, runVars, channels, selects, selectOk, maxSeen, lastFrom, extVars>>

\* the fetch rejected, or !response.ok: catch
SelectFetchFails ==
  /\ selFetch > 0
  /\ selFetch' = selFetch - 1
  /\ notice' = "Error: select folder"
  /\ UNCHANGED <<processing, progress, summary, folderSelected, runVars, channels,
                 selJson, selects, selectOk, maxSeen, lastFrom, extVars>>

\* response.json() resolved with data.success = success
SelectJsonOk(success) ==
  /\ selJson > 0
  /\ selJson' = selJson - 1
  /\ IF success
       THEN /\ folderSelected' = SetState(folderSelected, TRUE)
            /\ notice' = "Folder Selected"
            /\ selectOk' = TRUE
       ELSE UNCHANGED <<folderSelected, notice, selectOk>>
  /\ UNCHANGED <<processing, progress, summary, runVars, channels, selFetch, selects, maxSeen, lastFrom, extVars>>

\* response.json() rejected: catch
SelectJsonFails ==
  /\ selJson > 0
  /\ selJson' = selJson - 1
  /\ notice' = "Error: select folder"
  /\ UNCHANGED <<processing, progress, summary, folderSelected, runVars, channels,
                 selFetch, selects, selectOk, maxSeen, lastFrom, extVars>>

\* ---- handleProcess ----
\* click on "Process Receipts": state reset, the fetch of /process is issued
HandleProcess ==
  /\ mounted
  /\ ~ProcessDisabled
  /\ invocations < MaxRuns
  /\ processing' = TRUE
  /\ progress' = 0
  /\ summary' = Null
  /\ pc' = "fetch"
  /\ eventSource' = 0
  /\ invocations' = invocations + 1
  /\ issued' = issued + 1
  /\ outcome' = "running"
  /\ response' = Null
  /\ maxSeen' = 0
  /\ lastFrom' = 0
  /\ UNCHANGED extVars
  /\ UNCHANGED <<folderSelected, notice, channels, settled, selVars>>

\* the fetch resolved with response.ok: the EventSource is created, json() awaited
ProcessFetchOk ==
  /\ pc = "fetch"
  /\ channels' = Append(channels, NewChannel)
  /\ eventSource' = Len(channels) + 1
  /\ pc' = "json"
  /\ UNCHANGED <<uiVars, invocations, issued, settled, outcome, response, selVars, maxSeen, lastFrom, extVars>>

\* the failure path without the finally block
ProcessFailedNoFinally ==
  /\ notice' = "Error: process"
  /\ pc' = "idle"
  /\ settled' = settled + 1
  /\ outcome' = "failed"
  /\ UNCHANGED <<processing, progress, summary, folderSelected, eventSource, channels,
                 invocations, issued, response, selVars, maxSeen, lastFrom, extVars>>

\* catch (toast) and finally (setProcessing(false))
ProcessFailed ==
  /\ notice' = "Error: process"
  /\ processing' = SetState(processing, FALSE)
  /\ pc' = "idle"
  /\ settled' = settled + 1
  /\ outcome' = "failed"
  /\ UNCHANGED <<progress, summary, folderSelected, eventSource, channels, invocations,
                 issued, response, selVars, maxSeen, lastFrom, extVars>>

\* the fetch rejected, or !response.ok
ProcessFetchFails ==
  /\ pc = "fetch"
  /\ ProcessFailed

\* response.json() rejected
ProcessJsonFails ==
  /\ pc = "json"
  /\ ProcessFailed

\* response.json() resolved with data: setSummary, toast, finally
ProcessJsonOk(data) ==
  /\ pc = "json"
  /\ summary' = SetState(summary, SummaryOf(data))
  /\ notice' = "Processing Complete"
  /\ processing' = SetState(processing, FALSE)
  /\ pc' = "idle"
  /\ settled' = settled + 1
  /\ outcome' = "success"
  /\ response' = data
  /\ UNCHANGED <<progress, folderSelected, eventSource, channels, invocations, issued,
                 selVars, maxSeen, lastFrom, extVars>>

\* ---- EventSource handlers ----
\* onmessage without the close at 100
OnMessageNoClose(c, v) ==
  /\ c \in OpenChannels
  /\ progress' = v
  /\ channels' = [channels EXCEPT ![c] = IF v = 100 THEN [@ EXCEPT !.got100 = TRUE] ELSE @]
  /\ maxSeen' = Max(maxSeen, Clamp(v))
  /\ lastFrom' = c
  /\ UNCHANGED extVars
  /\ UNCHANGED <<processing, summary, folderSelected, notice, runVars, selVars>>

\* onmessage that also ends the run's processing state at 100
OnMessageClearsProcessing(c, v) ==
  /\ c \in OpenChannels
  /\ progress' = v
  /\ channels' = [channels EXCEPT ![c] =
                    IF v = 100 THEN [Close(@) EXCEPT !.got100 = TRUE] ELSE @]
  /\ processing' = IF v = 100 THEN FALSE ELSE processing
  /\ maxSeen' = Max(maxSeen, Clamp(v))
  /\ lastFrom' = c
  /\ UNCHANGED extVars
  /\ UNCHANGED <<summary, folderSelected, notice, runVars, selVars>>

\* eventSource.onmessage of channel c with data.progress = v
OnMessage(c, v) ==
  /\ c \in OpenChannels
  /\ progress' = SetState(progress, v)
  /\ channels' = [channels EXCEPT ![c] =
                    IF v = 100 THEN [Close(@) EXCEPT !.got100 = TRUE] ELSE @]
  /\ maxSeen' = Max(maxSeen, Clamp(v))
  /\ lastFrom' = c
  /\ UNCHANGED extVars
  /\ UNCHANGED <<processing, summary, folderSelected, notice, runVars, selVars>>

\* eventSource.onerror of channel c
OnError(c) ==
  /\ c \in OpenChannels
  /\ channels' = [channels EXCEPT ![c] = Close(@)]
  /\ UNCHANGED <<uiVars, runVars, selVars, maxSeen, lastFrom, extVars>>

\* response.json() of /select-folder resolved with some body
SelectResolved == \E success \in BOOLEAN : SelectJsonOk(success)

\* response.json() of /process resolved with some body
ProcessResolved == \E data \in Payloads : ProcessJsonOk(data)

\* some open channel delivers a message
StreamMessage == \E c \in 1..Len(channels) : \E v \in ProgressValues : OnMessage(c, v)

\* some open channel reports a transport error
StreamError == \E c \in 1..Len(channels) : OnError(c)

Next ==
  \/ HandleFolderSelect
  \/ SelectFetchOk
  \/ SelectFetchFails
  \/ SelectResolved
  \/ SelectJsonFails
  \/ HandleProcess
  \/ ProcessFetchOk
  \/ ProcessFetchFails
  \/ ProcessJsonFails
  \/ ProcessResolved
  \/ StreamMessage
  \/ StreamError

Spec == Init /\ [][Next]_vars

\* ---- teardown ----
\* React unmounts the component: it registers no cleanup effect, nothing else happens
Unmount ==
  /\ mounted
  /\ mounted' = FALSE
  /\ UNCHANGED <<uiVars, runVars, selVars, channels, maxSeen, lastFrom, intervals,
                 upload, listing, receipts>>

NextTeardown ==
  \/ Next
  \/ Unmount

SpecTeardown == Init /\ [][NextTeardown]_vars

\* ---- the variant that simulates progress with a timer ----
\* handleProcess after the fetch resolved with response.ok: setInterval, json() awaited
TimerFetchOk ==
  /\ pc = "fetch"
  /\ intervals' = Append(intervals, TRUE)
  /\ pc' = "json"
  /\ UNCHANGED <<uiVars, eventSource, invocations, issued, settled, outcome, response,
                 selVars, channels, maxSeen, lastFrom, mounted,
                 upload, listing, receipts>>

\* the updater with the comparison prev > 100
TickOffByOne(i) ==
  /\ mounted
  /\ i \in DOMAIN intervals
  /\ intervals[i]
  /\ IF progress > 100
       THEN /\ intervals' = [intervals EXCEPT ![i] = FALSE]
            /\ progress' = 100
       ELSE /\ progress' = progress + 10
            /\ UNCHANGED intervals
  /\ UNCHANGED <<processing, summary, folderSelected, notice, runVars, selVars, channels,
                 maxSeen, lastFrom, mounted,
                 upload, listing, receipts>>

\* a tick of timer i: setProgress(prev => prev >= 100 ? (clearInterval, 100) : prev + 10);
\* the updater of an unmounted component is never run
Tick(i) ==
  /\ mounted
  /\ i \in DOMAIN intervals
  /\ intervals[i]
  /\ IF progress >= 100
       THEN /\ intervals' = [intervals EXCEPT ![i] = FALSE]
            /\ progress' = 100
       ELSE /\ progress' = progress + 10
            /\ UNCHANGED intervals
  /\ UNCHANGED <<processing, summary, folderSelected, notice, runVars, selVars, channels,
                 maxSeen, lastFrom, mounted,
                 upload, listing, receipts>>

\* some active timer ticks
TimerTick == \E i \in DOMAIN intervals : Tick(i)

NextTimer ==
  \/ HandleFolderSelect
  \/ SelectFetchOk
  \/ SelectFetchFails
  \/ SelectResolved
  \/ SelectJsonFails
  \/ HandleProcess
  \/ TimerFetchOk
  \/ ProcessFetchFails
  \/ ProcessJsonFails
  \/ ProcessResolved
  \/ TimerTick

SpecTimer == Init /\ [][NextTimer]_vars

\* ---- the variant with the upload step and the receipts list ----
\* lengths of the list that /api/receipts can return
ReceiptCounts == {0, 2}

UploadsInFlight ==
  upload.fetch + upload.json + listing["upload"].fetch + listing["upload"].json

\* useEffect(() => { fetchReceipts() }, []): one fetchReceipts is in flight after the mount
InitUpload ==
  /\ processing = FALSE
  /\ progress = 0
  /\ summary = Null
  /\ folderSelected = FALSE
  /\ notice = "none"
  /\ pc = "idle"
  /\ eventSource = 0
  /\ channels = <<>>
  /\ selFetch = 0
  /\ selJson = 0
  /\ selects = 0
  /\ invocations = 0
  /\ issued = 0
  /\ settled = 0
  /\ outcome = "none"
  /\ response = Null
  /\ maxSeen = 0
  /\ selectOk = FALSE
  /\ mounted = TRUE
  /\ intervals = <<>>
  /\ lastFrom = 0
  /\ upload = NoUpload
  /\ listing = [NoListing EXCEPT !["effect"].fetch = 1]
  /\ receipts = 0

\* click on "Select Receipt Folder"
UploadHandleFolderSelect ==
  /\ selects < MaxUploadSelects
  /\ HandleFolderSelect

\* response.json() of /select-folder resolved; the gate is set only when handleUpload returns
UploadSelectJsonOkGateAfterUpload(success) ==
  /\ selJson > 0
  /\ selJson' = selJson - 1
  /\ IF success
       THEN /\ selectOk' = TRUE
            /\ upload' = [upload EXCEPT !.fetch = @ + 1]
       ELSE UNCHANGED <<selectOk, upload>>
  /\ UNCHANGED <<uiVars, runVars, channels, selFetch, selects, maxSeen, lastFrom,
                 mounted, intervals, listing, receipts>>

\* response.json() of /select-folder resolved: setFolderSelected(true), then
\* handleUpload is called and issues the fetch of /upload
UploadSelectJsonOk(success) ==
  /\ selJson > 0
  /\ selJson' = selJson - 1
  /\ IF success
       THEN /\ folderSelected' = SetState(folderSelected, TRUE)
            /\ selectOk' = TRUE
            /\ upload' = [upload EXCEPT !.fetch = @ + 1]
       ELSE UNCHANGED <<folderSelected, selectOk, upload>>
  /\ UNCHANGED <<processing, progress, summary, notice, runVars, channels, selFetch,
                 selects, maxSeen, lastFrom, mounted, intervals, listing, receipts>>

UploadSelectResolved == \E success \in BOOLEAN : UploadSelectJsonOk(success)

\* handleUpload: the fetch of /upload resolved with response.ok
UploadFetchOk ==
  /\ upload.fetch > 0
  /\ upload' = [upload EXCEPT !.fetch = @ - 1, !.json = @ + 1]
  /\ UNCHANGED <<uiVars, runVars, selVars, channels, maxSeen, lastFrom, mounted, intervals,
                 listing, receipts>>

\* handleUpload caught a failure (toast) and returned; handleFolderSelect
\* resumes and shows its "Folder Selected" toast
UploadFailed ==
  /\ notice' = "Folder Selected"
  /\ UNCHANGED <<processing, progress, summary, folderSelected, runVars, selVars, channels,
                 maxSeen, lastFrom, mounted, intervals, listing, receipts>>

\* handleUpload: the fetch of /upload rejected, or !response.ok
UploadFetchFails ==
  /\ upload.fetch > 0
  /\ upload' = [upload EXCEPT !.fetch = @ - 1, !.failed = TRUE]
  /\ UploadFailed

\* handleUpload: response.json() rejected
UploadJsonFails ==
  /\ upload.json > 0
  /\ upload' = [upload EXCEPT !.json = @ - 1, !.failed = TRUE]
  /\ UploadFailed

\* handleUpload: response.json() resolved, fetchReceipts is called and awaited
UploadJsonOk ==
  /\ upload.json > 0
  /\ upload' = [upload EXCEPT !.json = @ - 1]
  /\ listing' = [listing EXCEPT !["upload"].fetch = @ + 1]
  /\ UNCHANGED <<uiVars, runVars, selVars, channels, maxSeen, lastFrom, mounted, intervals,
                 receipts>>

\* the toast left on screen when a fetchReceipts of caller k returns: handleUpload
\* and then handleFolderSelect resume and toast; the other callers do not await it
NoticeAfterListing(k, own) == IF k = "upload" THEN "Folder Selected" ELSE own

\* fetchReceipts: the fetch of /api/receipts resolved with response.ok
ListFetchOk(k) ==
  /\ listing[k].fetch > 0
  /\ listing' = [listing EXCEPT ![k].fetch = @ - 1, ![k].json = @ + 1]
  /\ UNCHANGED <<uiVars, runVars, selVars, channels, maxSeen, lastFrom, mounted, intervals,
                 upload, receipts>>

\* fetchReceipts: the fetch rejected, or !response.ok: catch
ListFetchFails(k) ==
  /\ listing[k].fetch > 0
  /\ listing' = [listing EXCEPT ![k].fetch = @ - 1]
  /\ notice' = NoticeAfterListing(k, "Error: fetch receipts")
  /\ UNCHANGED <<processing, progress, summary, folderSelected, runVars, selVars, channels,
                 maxSeen, lastFrom, mounted, intervals, upload, receipts>>

\* fetchReceipts: response.json() resolved with a list of n receipts: setReceipts
ListJsonOk(k, n) ==
  /\ listing[k].json > 0
  /\ listing' = [listing EXCEPT ![k].json = @ - 1]
  /\ receipts' = SetState(receipts, n)
  /\ notice' = NoticeAfterListing(k, notice)
  /\ UNCHANGED <<processing, progress, summary, folderSelected, runVars, selVars, channels,
                 maxSeen, lastFrom, mounted, intervals, upload>>

\* fetchReceipts: response.json() rejected: catch
ListJsonFails(k) ==
  /\ listing[k].json > 0
  /\ listing' = [listing EXCEPT ![k].json = @ - 1]
  /\ notice' = NoticeAfterListing(k, "Error: fetch receipts")
  /\ UNCHANGED <<processing, progress, summary, folderSelected, runVars, selVars, channels,
                 maxSeen, lastFrom, mounted, intervals, upload, receipts>>

ListFetchResolved == \E k \in ListCallers : ListFetchOk(k)
ListFetchRejected == \E k \in ListCallers : ListFetchFails(k)
ListResolved == \E k \in ListCallers : \E n \in ReceiptCounts : ListJsonOk(k, n)
ListJsonRejected == \E k \in ListCallers : ListJsonFails(k)

\* click on "Process Receipts"
UploadHandleProcess ==
  /\ invocations < MaxUploadRuns
  /\ HandleProcess

\* eventSource.onmessage of channel c: as in the other stream variants, and
\* fetchReceipts is called (not awaited) when data.progress is 100
UploadOnMessage(c, v) ==
  /\ c \in OpenChannels
  /\ progress' = SetState(progress, v)
  /\ channels' = [channels EXCEPT ![c] =
                    IF v = 100 THEN [Close(@) EXCEPT !.got100 = TRUE] ELSE @]
  /\ listing' = IF v = 100 THEN [listing EXCEPT !["effect"].fetch = @ + 1] ELSE listing
  /\ maxSeen' = Max(maxSeen, Clamp(v))
  /\ lastFrom' = c
  /\ UNCHANGED <<processing, summary, folderSelected, notice, runVars, selVars, mounted,
                 intervals, upload, receipts>>

UploadStreamMessage ==
  \E c \in 1..Len(channels) : \E v \in ProgressValues : UploadOnMessage(c, v)

NextUpload ==
  \/ UploadHandleFolderSelect
  \/ SelectFetchOk
  \/ SelectFetchFails
  \/ UploadSelectResolved
  \/ SelectJsonFails
  \/ UploadFetchOk
  \/ UploadFetchFails
  \/ UploadJsonOk
  \/ UploadJsonFails
  \/ ListFetchResolved
  \/ ListFetchRejected
  \/ ListResolved
  \/ ListJsonRejected
  \/ UploadHandleProcess
  \/ ProcessFetchOk
  \/ ProcessFetchFails
  \/ ProcessJsonFails
  \/ ProcessResolved
  \/ UploadStreamMessage
  \/ StreamError

SpecUpload == InitUpload /\ [][NextUpload]_vars

TypeOK ==
  /\ processing \in BOOLEAN
  /\ progress \in {0} \cup ProgressValues
  /\ summary \in {Null} \cup [processed : 0..MaxCount, total : 0..MaxCount]
  /\ pc \in {"idle", "fetch", "json"}
  /\ eventSource \in 0..Len(channels)
  /\ Len(channels) <= MaxRuns

\* ---- properties ----
Channels == 1..Len(channels)

\* C1: at most one progress channel is open at any time, whatever the sequence
\* of runs, stream messages, stream errors and response resolutions.
C1_AtMostOneOpenChannel == Cardinality(OpenChannels) <= 1

\* C2: after a successful run the summary shows the processed and total values
\* that the /process response carried (integer fields, as the interface of
\* /process defines them), whether stream messages came before or after it.
C2_SummaryEqualsResponse ==
  outcome = "success" =>
    /\ summary # Null
    /\ response.processed # Undefined => summary.processed = response.processed
    /\ response.total # Undefined => summary.total = response.total

\* a successful run with a nonzero count whose stream delivered 100 before the
\* response resolved (the channel is closed, the summary shows the response)
C2_Witness ==
  /\ outcome = "success"
  /\ response.processed = 1
  /\ response.total = 1
  /\ summary.processed = 1
  /\ channels[eventSource].got100

\* C3: a successful run whose channel delivered 100 ends with processing false,
\* progress 100, the summary of the response and the channel closed, in either
\* order of the two signals; and while the response is still awaited after the
\* channel delivered 100, progress is 100 and no summary is shown.
C3_OrderIndependentOutcome ==
  /\ (outcome = "success" /\ channels[eventSource].got100) =>
        /\ processing = FALSE
        /\ progress = 100
        /\ summary = SummaryOf(response)
        /\ channels[eventSource].readyState = "CLOSED"
  /\ (pc = "json" /\ channels[eventSource].got100) =>
        /\ progress = 100
        /\ summary = Null
        /\ processing = TRUE

\* C4: after a failed start-processing call no summary is shown, processing is
\* false and the process trigger is enabled again.
C4_FailedRunLeavesNoSummary ==
  outcome = "failed" =>
    /\ summary = Null
    /\ processing = FALSE
    /\ pc = "idle"
    /\ ~ProcessDisabled

\* a second run that failed while reading the body, its channel already created
C4_Witness ==
  /\ outcome = "failed"
  /\ invocations = 2
  /\ eventSource = 2
  /\ summary = Null
  /\ ~processing

\* C5: the displayed progress equals the maximum of the values received from the
\* stream since the run started, clamped to [0,100].
C5_ProgressIsClampedMax == progress = maxSeen

\* C6: a channel is closed at most once, a channel that delivered 100 is closed
\* (by exactly one close), and a closed channel is never touched again: it is
\* not closed a second time, not reopened and it delivers nothing more.
C6_ClosedExactlyOnce ==
  /\ [](\A c \in Channels :
          /\ channels[c].closes <= 1
          /\ channels[c].got100 =>
               (channels[c].readyState = "CLOSED" /\ channels[c].closes = 1))
  /\ [][\A c \in Channels :
          channels[c].readyState = "CLOSED" =>
            (channels'[c] = channels[c] /\ c \notin OpenChannels')]_vars

\* a channel that closed itself on 100 while a later run's channel is open
C6_Witness ==
  \E c \in Channels : \E d \in Channels :
    /\ c < d
    /\ channels[c].got100
    /\ channels[c].closes = 1
    /\ channels[d].readyState = "OPEN"

\* C7: a /process request is issued only while no earlier one is unsettled, and
\* every invocation of the trigger issues exactly one request.
C7_NoConcurrentRuns ==
  /\ [](issued - settled <= 1 /\ issued = invocations)
  /\ [][issued' # issued =>
          /\ ~processing
          /\ settled = issued
          /\ issued' = issued + 1
          /\ invocations' = invocations + 1]_vars

\* a second request in flight after the first one has settled
C7_Witness ==
  /\ issued = 2
  /\ settled = 1
  /\ processing
  /\ pc = "fetch"

\* C8: a /process request is issued only with the gate set, and the gate is set
\* only after a /select-folder call returned ok with success true.
C8_GateBeforeProcess ==
  /\ []((issued > 0 \/ folderSelected) => selectOk)
  /\ [][issued' # issued => (folderSelected /\ selectOk)]_vars

\* a request issued after one folder selection failed and a later one succeeded
C8_Witness ==
  /\ issued = 1
  /\ selects = 2
  /\ notice = "Error: select folder"
  /\ selectOk
  /\ pc = "fetch"

\* C9: processing goes from true to false only in the step that settles the
\* request of the run in flight; stream messages and stream errors leave it.
C9_ProcessingClearedOnlyOnSettle ==
  [][processing # processing' =>
       \/ (~processing /\ pc = "idle" /\ pc' = "fetch")
       \/ (processing /\ pc \in {"fetch", "json"} /\ pc' = "idle"
             /\ settled' = settled + 1)]_vars

\* the request has settled, the stream failed below 100: a resting state
C9_Witness ==
  /\ outcome = "success"
  /\ ~processing
  /\ progress = 50
  /\ channels[eventSource].readyState = "CLOSED"
  /\ ~channels[eventSource].got100

\* C10: the progress channel of a run is open as soon as its /process request is
\* issued: while the request awaits its response the channel already exists.
C10_ChannelOpenWhileRequestPending ==
  pc = "fetch" => (eventSource # 0 /\ channels[eventSource].readyState = "OPEN")

\* C11: a channel closed by a transport error is never reopened, and once the
\* run's channel has failed the progress value changes only when a new run starts.
C11_ErrorFreezesProgress ==
  /\ [][\A c \in Channels :
          channels[c].readyState = "CLOSED" => c \notin OpenChannels']_vars
  /\ [][(/\ eventSource # 0
         /\ channels[eventSource].readyState = "CLOSED"
         /\ ~channels[eventSource].got100
         /\ invocations' = invocations) => progress' = progress]_vars

\* C12: every failure ends in a notification: a failed folder selection, a
\* failed start-processing call, and a transport error of the progress stream.
C12_FailuresAreNotified ==
  /\ [][(selFetch + selJson > selFetch' + selJson' /\ folderSelected' = folderSelected
           /\ notice' # notice) => notice' = "Error: select folder"]_vars
  /\ [][(settled' # settled /\ outcome' = "failed") => notice' = "Error: process"]_vars
  /\ [][(\E c \in Channels :
           /\ channels[c].readyState = "OPEN"
           /\ channels'[c].readyState = "CLOSED"
           /\ ~channels'[c].got100) => notice' = "Error: stream"]_vars

\* C13: the teardown of the component closes the progress channel that is open
\* at that time, so that no channel is open once the component is unmounted.
C13_TeardownClosesChannel == [][(mounted /\ ~mounted') => OpenChannels' = {}]_vars

\* C14: every stream message handled since the current run started came from
\* the channel that this run opened.
C14_ChannelOwnedByCurrentRun == lastFrom # 0 => lastFrom = eventSource

\* C15: in the timer variant progress is always a multiple of 10 within [0,100];
\* a tick changes progress only by adding 10 to a value below 100, and a timer
\* is cleared only by a tick that finds progress at 100 or more; also with the
\* timers of several runs ticking at once.
C15_TimerProgressMultipleOfTen ==
  /\ [](progress \in {10 * k : k \in 0..10})
  /\ [][(progress' # progress /\ invocations' = invocations) =>
          (progress < 100 /\ progress' = progress + 10)]_vars
  /\ [][\A i \in DOMAIN intervals :
          (intervals[i] /\ ~intervals'[i]) => (progress >= 100 /\ progress' = 100)]_vars

\* the second run was reset to 0 while the timer of the first run was still
\* ticking; both timers have driven progress to 100 and neither is cleared yet
C15_Witness ==
  /\ invocations = 2
  /\ Len(intervals) = 2
  /\ intervals[1]
  /\ intervals[2]
  /\ progress = 100

\* C16: in the upload variant the gate is set whenever an upload is in flight
\* (it is set before the /upload request is awaited), so the process trigger is
\* not held back by the upload, and the gate is never unset again, also when
\* the upload fails.
C16_GateSetBeforeUploadSettles ==
  /\ [](UploadsInFlight > 0 => folderSelected)
  /\ []((UploadsInFlight > 0 /\ ~processing) => ~ProcessDisabled)
  /\ [][upload.fetch' > upload.fetch => folderSelected']_vars
  /\ [][folderSelected => folderSelected']_vars

\* a /process request is pending while an /upload request has not settled, and
\* an earlier upload has failed with the gate still set
C16_Witness ==
  /\ pc = "fetch"
  /\ upload.fetch = 1
  /\ upload.failed
  /\ folderSelected
====
